---------------------------- MODULE Spec2Model ----------------------------
(***************************************************************************)
(* A model of the rust-vector-math library: src/src/matrix.rs (the dense   *)
(* f64 Matrix type and its power-iteration SVD) and src/src/vector.rs (the *)
(* generic Vector operations).                                             *)
(*                                                                         *)
(* Numbers.  f64 values are modelled as exact reals; rounding is not       *)
(* modelled.  Matrix and vector inputs hold small integers.  A rational is *)
(* a reduced pair <<n, d>> with d > 0.  A real of the form x / sqrt(q) is  *)
(* kept as the integer x together with its radicand q (a rational), and a  *)
(* real of the form sqrt(q) or sign * sqrt(q) by its signed square; both   *)
(* encodings are one-to-one and keep the order of the reals they encode.   *)
(* A unit vector d / ||d|| is kept as the integer direction d, divided by  *)
(* the gcd of its entries (a positive factor, which normalisation cancels).*)
(***************************************************************************)
EXTENDS Integers, Sequences, FiniteSets

VARIABLES
    \* matrix workbench: a caller holding one matrix and calling the API
    mat, ret, last,
    \* one run of Matrix::svd
    A, tol, max_iter, pc, n, ata_work, eigvals, eigvecs, b_k, lambda,
    outer, iter, steps, out,
    \* one call of a Vector operation
    va, vb, vres

matVars == <<mat, ret, last>>
svdVars == <<A, tol, max_iter, pc, n, ata_work, eigvals, eigvecs, b_k, lambda,
             outer, iter, steps, out>>
vecVars == <<va, vb, vres>>
vars == <<matVars, svdVars, vecVars>>

----------------------------------------------------------------------------
(* Bounds of the model *)

\* a matrix of the workbench holds at most MaxCells entries
MaxCells == 4
\* an SVD input holds at most SvdCells entries
SvdCells == 4
\* SVD runs are started with max_iter in 0..MaxIter
MaxIter == 2
\* no integer of an SVD run exceeds Lim in absolute value
Lim == 1000000000
\* vectors have at most MaxLen elements
MaxLen == 3

----------------------------------------------------------------------------
(* Results: Rust's Result<T, &'static str>, and a panic *)

Ok(v) == [ok |-> TRUE, val |-> v]
Err(e) == [ok |-> FALSE, err |-> e]
Panic == [ok |-> FALSE, err |-> "panic: index out of bounds"]
Unit == "()"

ErrEmptyMatrix == "Matrix cannot be empty"
ErrRagged == "All rows must have the same number of columns"
ErrMulShape == "Incompatible shapes for multiplication"
ErrColLen == "Column length mismatch"

----------------------------------------------------------------------------
(* Integer helpers *)

Abs(x) == IF x < 0 THEN -x ELSE x

RECURSIVE Gcd(_, _)
Gcd(a, b) == IF b = 0 THEN a ELSE Gcd(b, a % b)

\* the rational n/d (d # 0) as a reduced pair with a positive denominator
Rat(p, q) ==
    LET g == Gcd(Abs(p), Abs(q))
        s == IF q < 0 THEN -1 ELSE 1
    IN  <<(s * p) \div g, (s * q) \div g>>

RatLess(p, q) == p[1] * q[2] < q[1] * p[2]

----------------------------------------------------------------------------
(* struct Matrix and its operations *)

Matrix(data, rows, cols) == [data |-> data, rows |-> rows, cols |-> cols]

MutNewSkipsEmptyRow(data) ==
    IF Len(data) = 0
    THEN Err(ErrEmptyMatrix)
    ELSE IF \E r \in 1..Len(data) : Len(data[r]) # Len(data[1])
         THEN Err(ErrRagged)
         ELSE Ok(Matrix(data, Len(data), Len(data[1])))

New(data) ==
    IF Len(data) = 0 \/ Len(data[1]) = 0
    THEN Err(ErrEmptyMatrix)
    ELSE LET cols == Len(data[1])
         IN  IF ~ \A r \in 1..Len(data) : Len(data[r]) = cols
             THEN Err(ErrRagged)
             ELSE Ok(Matrix(data, Len(data), cols))

Zeros(rows, cols) ==
    Matrix([i \in 1..rows |-> [j \in 1..cols |-> 0]], rows, cols)

MutTransposeNoSwap(m) ==
    Matrix([j \in 1..m.cols |-> [i \in 1..m.rows |->
                IF j <= m.rows /\ i <= m.cols THEN m.data[j][i] ELSE m.data[i][j]]],
           m.cols, m.rows)

Transpose(m) ==
    Matrix([j \in 1..m.cols |-> [i \in 1..m.rows |-> m.data[i][j]]],
           m.cols, m.rows)

\* out[i][j] after the k-loop has run over 1..k, k ascending
RECURSIVE MulCell(_, _, _, _, _)
MulCell(a, b, i, j, k) ==
    IF k = 0 THEN 0
    ELSE MulCell(a, b, i, j, k - 1) + a.data[i][k] * b.data[k][j]

MutMulChecksRows(self, other) ==
    IF self.rows # other.rows
    THEN Err(ErrMulShape)
    ELSE Ok(Matrix([i \in 1..self.rows |-> [j \in 1..other.cols |->
                       MulCell(self, other, i, j, self.cols)]],
                   self.rows, other.cols))

MutMulLastTerm(self, other) ==
    IF self.cols # other.rows
    THEN Err(ErrMulShape)
    ELSE Ok(Matrix([i \in 1..self.rows |-> [j \in 1..other.cols |->
                       IF self.cols = 0 THEN 0
                       ELSE self.data[i][self.cols] * other.data[self.cols][j]]],
                   self.rows, other.cols))

Mul(self, other) ==
    IF self.cols # other.rows
    THEN Err(ErrMulShape)
    ELSE Ok(Matrix([i \in 1..self.rows |-> [j \in 1..other.cols |->
                       MulCell(self, other, i, j, self.cols)]],
                   self.rows, other.cols))

Col(m, idx) == [r \in 1..m.rows |-> m.data[r][idx + 1]]

\* the first row (1-based) at which self.data[r][idx] is out of bounds, or 0
FirstBadRow(m, idx, col) ==
    LET bad == {r \in 1..Len(col) : r > Len(m.data) \/ idx >= Len(m.data[r])}
    IN  IF bad = {} THEN 0 ELSE CHOOSE r \in bad : \A q \in bad : r <= q

\* the receiver after rows 1..upto have been assigned
ColWritten(m, idx, col, upto) ==
    [m EXCEPT !.data = [r \in 1..Len(m.data) |->
        IF r <= upto THEN [m.data[r] EXCEPT ![idx + 1] = col[r]]
        ELSE m.data[r]]]

MutSetColNoLengthCheck(m, idx, col) ==
    LET f == FirstBadRow(m, idx, col)
    IN  IF f # 0
        THEN [res |-> Panic, m |-> ColWritten(m, idx, col, f - 1)]
        ELSE [res |-> Ok(Unit), m |-> ColWritten(m, idx, col, Len(col))]

\* the value returned and the receiver afterwards; idx is 0-based
SetCol(m, idx, col) ==
    IF Len(col) # m.rows
    THEN [res |-> Err(ErrColLen), m |-> m]
    ELSE LET f == FirstBadRow(m, idx, col)
         IN  IF f # 0
             THEN [res |-> Panic, m |-> ColWritten(m, idx, col, f - 1)]
             ELSE [res |-> Ok(Unit), m |-> ColWritten(m, idx, col, Len(col))]

----------------------------------------------------------------------------
(* The matrix workbench: a caller that owns at most one matrix.  It        *)
(* constructs one when it holds none, calls an operation on the one it     *)
(* holds, looks at what the call returned, keeps a returned matrix in      *)
(* place of the receiver, and may drop the matrix it holds.                *)

\* the values a constructor or set_col is given
Vals == {0, 1}
\* the values a matrix kept by the caller may hold
Entries == {0, 1, 2}

SeqsUpTo(S, len) == UNION {[1..k -> S] : k \in 0..len}

\* sequences of at most rows rows holding at most cells values in all
RECURSIVE DataUpTo(_, _)
DataUpTo(cells, rows) ==
    IF rows = 0 THEN {<<>>}
    ELSE {<<>>} \cup
         UNION {{<<row>> \o rest : rest \in DataUpTo(cells - Len(row), rows - 1)} :
                row \in SeqsUpTo(Vals, cells)}

DataInputs == DataUpTo(MaxCells, MaxCells)

Operands == {New(d).val : d \in {e \in DataInputs : New(e).ok}}

ColInputs == SeqsUpTo(Vals, MaxCells)

Fits(m) ==
    /\ m.rows * m.cols <= MaxCells
    /\ \A i \in 1..Len(m.data) : \A j \in 1..Len(m.data[i]) :
          m.data[i][j] \in Entries

\* the caller holds no matrix (an empty 0 x 0 value stands for none)
NoMatrix == Zeros(0, 0)

Call(op, pre, arg, idx) == [op |-> op, pre |-> pre, arg |-> arg, idx |-> idx]
NoCall == Call("none", NoMatrix, <<>>, 0)

MatInit ==
    /\ mat = NoMatrix
    /\ ret = Ok(Unit)
    /\ last = NoCall

\* let m = Matrix::new(data)
NewOp ==
    /\ UNCHANGED <<svdVars, vecVars>>
    /\ last = NoCall /\ mat = NoMatrix
    /\ \E data \in DataInputs :
        /\ ret' = New(data)
        /\ mat' = IF ret'.ok THEN ret'.val ELSE NoMatrix
        /\ last' = Call("new", NoMatrix, data, 0)

\* let m = Matrix::zeros(rows, cols)
ZerosOp ==
    /\ UNCHANGED <<svdVars, vecVars>>
    /\ last = NoCall /\ mat = NoMatrix
    /\ \E rows \in 0..MaxCells, cols \in 0..MaxCells :
        /\ rows * cols <= MaxCells
        /\ ret' = Ok(Zeros(rows, cols))
        /\ mat' = Zeros(rows, cols)
        /\ last' = Call("zeros", NoMatrix, <<rows, cols>>, 0)

\* let m = m.transpose()
TransposeOp ==
    /\ UNCHANGED <<svdVars, vecVars>>
    /\ last = NoCall
    /\ ret' = Ok(Transpose(mat))
    /\ mat' = Transpose(mat)
    /\ last' = Call("transpose", mat, <<>>, 0)

\* let m = m.mul(&other), the receiver kept when the call fails
MulOp ==
    /\ UNCHANGED <<svdVars, vecVars>>
    /\ last = NoCall
    /\ \E other \in Operands \cup {mat} :
        /\ ret' = Mul(mat, other)
        /\ ret'.ok => Fits(ret'.val)
        /\ mat' = IF ret'.ok THEN ret'.val ELSE mat
        /\ last' = Call("mul", mat, other, 0)

\* m.set_col(idx, &col)
SetColOp ==
    /\ UNCHANGED <<svdVars, vecVars>>
    /\ last = NoCall
    /\ \E idx \in 0..MaxCells, col \in ColInputs :
        /\ ret' = SetCol(mat, idx, col).res
        /\ mat' = SetCol(mat, idx, col).m
        /\ last' = Call("set_col", mat, col, idx)

\* the caller has looked at the returned value and goes on
Continue ==
    /\ UNCHANGED <<svdVars, vecVars>>
    /\ last # NoCall
    /\ last' = NoCall
    /\ ret' = Ok(Unit)
    /\ mat' = mat

\* drop(m)
DropOp ==
    /\ UNCHANGED <<svdVars, vecVars>>
    /\ last = NoCall /\ mat # NoMatrix
    /\ mat' = NoMatrix
    /\ UNCHANGED <<ret, last>>

----------------------------------------------------------------------------
(* Real arithmetic of the SVD.  ata_work is [num, den]: the matrix of      *)
(* integers num over the common denominator den > 0.  b_k and the          *)
(* eigenvectors are directions (see the head of the module); lambda and    *)
(* the eigenvalues are rationals.                                          *)

\* 1e-12 is 1 / (EpsRoot * EpsRoot)
EpsRoot == 1000000

RECURSIVE Dot(_, _, _)
Dot(u, v, k) == IF k = 0 THEN 0 ELSE Dot(u, v, k - 1) + u[k] * v[k]

RECURSIVE GcdOf(_, _)
GcdOf(v, k) == IF k = 0 THEN 0 ELSE Gcd(GcdOf(v, k - 1), Abs(v[k]))

RECURSIVE MaxAbs(_, _)
MaxAbs(v, k) ==
    IF k = 0 THEN 0
    ELSE LET m == MaxAbs(v, k - 1) IN IF Abs(v[k]) > m THEN Abs(v[k]) ELSE m

MaxAbsMat(m) == MaxAbs([i \in 1..Len(m) |-> MaxAbs(m[i], Len(m[i]))], Len(m))

Max2(x, y) == IF x > y THEN x ELSE y

\* the product of the naturals of s is at most lim
RECURSIVE ProdWithin(_, _)
ProdWithin(s, lim) ==
    IF s = <<>> \/ Head(s) = 0 THEN TRUE
    ELSE IF lim \div Head(s) = 0 THEN FALSE
         ELSE ProdWithin(Tail(s), lim \div Head(s))

Small(s) == ProdWithin(s, Lim)

\* normalize(v): whether the norm it returns is 0.0, and v afterwards
Normalize(v) ==
    LET g == GcdOf(v, Len(v))
    IN  [zero |-> g = 0,
         v |-> IF g > 0 THEN [i \in 1..Len(v) |-> v[i] \div g] ELSE v]

\* mat_vec_mul(m, v), without the positive factor 1 / (den * ||v||)
MatVecMul(m, v) == [i \in 1..Len(m) |-> Dot(m[i], v, Len(v))]

\* rayleigh_quotient(m, v) for the unit vector of direction v
RayleighQuotient(w, v) ==
    Rat(Dot(v, MatVecMul(w.num, v), Len(v)), w.den * Dot(v, v, Len(v)))

\* (lambda_next - lambda).abs() < tol
Converged(next, prev, t) ==
    Abs(next[1] * prev[2] - prev[1] * next[2]) * t[2] < t[1] * (next[2] * prev[2])

\* lambda.abs() < 1e-12
MutLambdaNeverTiny(l) == FALSE

LambdaTiny(l) == Abs(l[1]) <= ((l[2] - 1) \div EpsRoot) \div EpsRoot

\* ata_work[i][j] -= lambda * b_k[i] * b_k[j], for the unit vector of direction v
Deflate(w, l, v) ==
    LET dd == Dot(v, v, Len(v))
        k == l[2] * dd
        num == [i \in 1..Len(w.num) |-> [j \in 1..Len(w.num) |->
                   w.num[i][j] * k - w.den * l[1] * v[i] * v[j]]]
        den == w.den * k
        g == Gcd(den, GcdOf([i \in 1..Len(num) |-> GcdOf(num[i], Len(num[i]))],
                            Len(num)))
    IN  [num |-> [i \in 1..Len(num) |-> [j \in 1..Len(num) |-> num[i][j] \div g]],
         den |-> den \div g]

\* the integers of one power iteration stay within Lim
SmallPower ==
    LET a == MaxAbsMat(ata_work.num)
        b == MaxAbs(b_k, Len(b_k))
    IN  /\ Small(<<n, a, b>>)
        /\ LET e == Normalize(MatVecMul(ata_work.num, b_k)).v
               c == MaxAbs(e, Len(e))
           IN  IF c = 0 THEN TRUE
               ELSE /\ Small(<<n, n, a, c, c>>)
                    /\ Small(<<ata_work.den, n, c, c>>)
                    /\ LET ln == RayleighQuotient(ata_work, e)
                       IN  Small(<<2, Max2(Abs(ln[1]), ln[2]),
                                   Max2(Abs(lambda[1]), lambda[2]),
                                   Max2(tol[1], tol[2])>>)

\* the integers of one deflation stay within Lim
SmallDeflate ==
    LET a == MaxAbsMat(ata_work.num)
        c == MaxAbs(b_k, Len(b_k))
    IN  Small(<<2, Max2(a, ata_work.den), Max2(Abs(lambda[1]), lambda[2]), n, c, c>>)

----------------------------------------------------------------------------
(* Matrix::svd, one action per step of its loops *)

SvdVals == {-5, -1, 0, 3, 4}
Tols == {<<1, 100>>, <<1, 1>>}

SvdInputs ==
    UNION {{New(d).val : d \in [1..r -> [1..c -> SvdVals]]} :
           <<r, c>> \in {rc \in (1..SvdCells) \X (1..SvdCells) :
                            rc[1] * rc[2] <= SvdCells}}

SvdInit ==
    /\ A \in SvdInputs /\ tol \in Tols /\ max_iter \in 0..MaxIter
    /\ pc = "start" /\ n = 0
    /\ ata_work = [num |-> <<>>, den |-> 1]
    /\ eigvals = <<>> /\ eigvecs = <<>> /\ b_k = <<>>
    /\ lambda = <<0, 1>> /\ outer = 0 /\ iter = 0 /\ steps = 0
    /\ out = Err("running")

\* let ata = self.transpose().mul(self)?; let n = ata.rows; ...
SvdBegin ==
    /\ UNCHANGED <<matVars, vecVars>>
    /\ pc = "start"
    /\ LET ata == Mul(Transpose(A), A)
       IN  IF ata.ok
           THEN /\ n' = ata.val.rows
                /\ ata_work' = [num |-> ata.val.data, den |-> 1]
                /\ pc' = "outer"
                /\ out' = out
           ELSE /\ out' = ata
                /\ pc' = "done"
                /\ UNCHANGED <<n, ata_work>>
    /\ steps' = steps + 1
    /\ UNCHANGED <<A, tol, max_iter, eigvals, eigvecs, b_k, lambda, outer, iter>>

\* for _ in 0..n: b_k = [1.0; n] normalized, lambda = 0.0
OuterEnter ==
    /\ UNCHANGED <<matVars, vecVars>>
    /\ pc = "outer" /\ outer < n
    /\ LET ones == Normalize([i \in 1..n |-> 1])
       IN  /\ b_k' = ones.v
           /\ pc' = IF ones.zero THEN "assemble" ELSE "inner"
    /\ lambda' = <<0, 1>>
    /\ iter' = 0
    /\ steps' = steps + 1
    /\ UNCHANGED <<A, tol, max_iter, n, ata_work, eigvals, eigvecs, outer, out>>

\* the outer loop has run n times
OuterExit ==
    /\ UNCHANGED <<matVars, vecVars>>
    /\ pc = "outer" /\ outer = n
    /\ pc' = "assemble"
    /\ steps' = steps + 1
    /\ UNCHANGED <<A, tol, max_iter, n, ata_work, eigvals, eigvecs, b_k, lambda,
                   outer, iter, out>>

\* the inner loop has run max_iter times
PowerExhaust ==
    /\ UNCHANGED <<matVars, vecVars>>
    /\ pc = "inner" /\ iter = max_iter
    /\ pc' = "post"
    /\ steps' = steps + 1
    /\ UNCHANGED <<A, tol, max_iter, n, ata_work, eigvals, eigvecs, b_k, lambda,
                   outer, iter, out>>

\* if Self::normalize(&mut b_next) == 0.0 { break; }
PowerBreak ==
    /\ UNCHANGED <<matVars, vecVars>>
    /\ pc = "inner" /\ iter < max_iter /\ SmallPower
    /\ Normalize(MatVecMul(ata_work.num, b_k)).zero
    /\ pc' = "post"
    /\ steps' = steps + 1
    /\ UNCHANGED <<A, tol, max_iter, n, ata_work, eigvals, eigvecs, b_k, lambda,
                   outer, iter, out>>

\* if (lambda_next - lambda).abs() < tol { lambda = ..; b_k = ..; break; }
PowerConverge ==
    /\ UNCHANGED <<matVars, vecVars>>
    /\ pc = "inner" /\ iter < max_iter /\ SmallPower
    /\ LET b_next == Normalize(MatVecMul(ata_work.num, b_k))
           lambda_next == RayleighQuotient(ata_work, b_next.v)
       IN  /\ ~ b_next.zero
           /\ Converged(lambda_next, lambda, tol)
           /\ lambda' = lambda_next
           /\ b_k' = b_next.v
    /\ pc' = "post"
    /\ steps' = steps + 1
    /\ UNCHANGED <<A, tol, max_iter, n, ata_work, eigvals, eigvecs, outer, iter, out>>

\* lambda = lambda_next; b_k = b_next; and the next iteration
PowerIterate ==
    /\ UNCHANGED <<matVars, vecVars>>
    /\ pc = "inner" /\ iter < max_iter /\ SmallPower
    /\ LET b_next == Normalize(MatVecMul(ata_work.num, b_k))
           lambda_next == RayleighQuotient(ata_work, b_next.v)
       IN  /\ ~ b_next.zero
           /\ ~ Converged(lambda_next, lambda, tol)
           /\ lambda' = lambda_next
           /\ b_k' = b_next.v
    /\ iter' = iter + 1
    /\ steps' = steps + 1
    /\ UNCHANGED <<A, tol, max_iter, pc, n, ata_work, eigvals, eigvecs, outer, out>>

\* if lambda.abs() < 1e-12 { break; }
EigenStop ==
    /\ UNCHANGED <<matVars, vecVars>>
    /\ pc = "post" /\ LambdaTiny(lambda)
    /\ pc' = "assemble"
    /\ steps' = steps + 1
    /\ UNCHANGED <<A, tol, max_iter, n, ata_work, eigvals, eigvecs, b_k, lambda,
                   outer, iter, out>>

\* eigvals.push(lambda); eigvecs.push(b_k.clone()); deflation
EigenAccept ==
    /\ UNCHANGED <<matVars, vecVars>>
    /\ pc = "post" /\ ~ LambdaTiny(lambda) /\ SmallDeflate
    /\ eigvals' = Append(eigvals, lambda)
    /\ eigvecs' = Append(eigvecs, b_k)
    /\ ata_work' = Deflate(ata_work, lambda, b_k)
    /\ outer' = outer + 1
    /\ pc' = "outer"
    /\ steps' = steps + 1
    /\ UNCHANGED <<A, tol, max_iter, n, b_k, lambda, iter, out>>

\* if x > 0.0 { x.sqrt() } else { 0.0 }, as the square of the value
SqrtClamped(x) == IF x[1] > 0 THEN x ELSE <<0, 1>>

\* sigma.abs() < 1e-12, for sigma >= 0 given by its square
SigmaTiny(sq) ==
    sq[1] <= ((((sq[2] - 1) \div EpsRoot) \div EpsRoot) \div EpsRoot) \div EpsRoot

\* for (j, c) in cols.iter().enumerate() { m.set_col(j, c)?; } over the first k
RECURSIVE SetCols(_, _, _)
SetCols(m, cols, k) ==
    IF k = 0 THEN [res |-> Ok(Unit), m |-> m]
    ELSE LET prev == SetCols(m, cols, k - 1)
         IN  IF prev.res.ok THEN SetCol(prev.m, k - 1, cols[k]) ELSE prev

\* a real matrix: entry [i][j] is m.data[i][j] / sqrt(rad[j]) when rad runs
\* over the columns (U), m.data[i][j] / sqrt(rad[i]) when over the rows (Vt)
Scaled(m, rad) == [m |-> m, rad |-> rad]

SmallAssemble ==
    \A j \in 1..Len(eigvecs) :
        LET c == MaxAbs(eigvecs[j], Len(eigvecs[j]))
        IN  /\ Small(<<n, c, c, Max2(Abs(eigvals[j][1]), eigvals[j][2])>>)
            /\ Small(<<n, MaxAbsMat(A.data), c>>)

MutDegenerateByRank(a) ==
    Ok([u |-> Scaled(Zeros(a.rows, 0), <<>>),
        s |-> <<>>,
        vt |-> Scaled(Zeros(0, a.cols), <<>>)])

\* if r == 0 { return Ok((zeros(rows, rows), vec![], zeros(0, 0))); }
SvdDegenerate(a) ==
    Ok([u |-> Scaled(Zeros(a.rows, a.rows), [j \in 1..a.rows |-> <<1, 1>>]),
        s |-> <<>>,
        vt |-> Scaled(Zeros(0, 0), <<>>)])

\* V, A * V, U and V^T for r >= 1 singular values
SvdAssembled(a, singular_values, vecs, cols) ==
    LET r == Len(singular_values)
        v_mat == SetCols(Zeros(cols, r), vecs, r)
        vrad == [j \in 1..r |-> <<Dot(vecs[j], vecs[j], Len(vecs[j])), 1>>]
    IN  IF ~ v_mat.res.ok THEN v_mat.res
        ELSE
        LET av == Mul(a, v_mat.m)
        IN  IF ~ av.ok THEN av
            ELSE
            LET ucols == [j \in 1..r |->
                    IF SigmaTiny(singular_values[j])
                    THEN [i \in 1..a.rows |-> 0]
                    ELSE Col(av.val, j - 1)]
                urad == [j \in 1..r |->
                    IF SigmaTiny(singular_values[j])
                    THEN <<1, 1>>
                    ELSE Rat(vrad[j][1] * singular_values[j][1],
                             vrad[j][2] * singular_values[j][2])]
                u_mat == SetCols(Zeros(a.rows, r), ucols, r)
                v_t == Matrix([j \in 1..r |-> [i \in 1..cols |->
                                  Col(v_mat.m, j - 1)[i]]], r, cols)
            IN  IF ~ u_mat.res.ok THEN u_mat.res
                ELSE Ok([u |-> Scaled(u_mat.m, urad),
                         s |-> singular_values,
                         vt |-> Scaled(v_t, vrad)])

\* the part of svd after the eigen loop
SvdResult(a, vals, vecs, cols) ==
    LET singular_values == [k \in 1..Len(vals) |-> SqrtClamped(vals[k])]
    IN  IF Len(singular_values) = 0
        THEN SvdDegenerate(a)
        ELSE SvdAssembled(a, singular_values, vecs, cols)

Assemble ==
    /\ UNCHANGED <<matVars, vecVars>>
    /\ pc = "assemble" /\ SmallAssemble
    /\ out' = SvdResult(A, eigvals, eigvecs, n)
    /\ pc' = "done"
    /\ steps' = steps + 1
    /\ UNCHANGED <<A, tol, max_iter, n, ata_work, eigvals, eigvecs, b_k, lambda,
                   outer, iter>>

----------------------------------------------------------------------------
(* struct Vector<T> and operate_vectors.  Elements are integers; x / y is  *)
(* the rational Rat(x, y).  A real x / sqrt(q) is the record               *)
(* [num |-> x, rad |-> q], and sqrt(q) is given by q.                      *)

ErrLen == "Vectors must have the same length"
ErrDivZero == "Division by zero"
ErrEmptyVec == "Vector must have at least one element"
ErrZeroNorm == "Cannot normalize zero vector"
ErrZeroSim == "Cannot compute cosine similarity with zero vector"

VectorOp == {"Add", "Sub", "Mul", "Div"}

\* the try_fold of operate_vectors over the first k pairs; a zero divisor is skipped
RECURSIVE MutFoldSkipsZero(_, _, _, _)
MutFoldSkipsZero(a, b, op, k) ==
    IF k = 0 THEN Ok(<<>>)
    ELSE LET acc == MutFoldSkipsZero(a, b, op, k - 1)
             x == a[k]
             y == b[k]
         IN  IF op = "Div" /\ y = 0 THEN acc
             ELSE Ok(Append(acc.val,
                     CASE op = "Add" -> x + y
                       [] op = "Sub" -> x - y
                       [] op = "Mul" -> x * y
                       [] op = "Div" -> Rat(x, y)))

\* the try_fold of operate_vectors over the first k pairs
RECURSIVE TryFold(_, _, _, _)
TryFold(a, b, op, k) ==
    IF k = 0 THEN Ok(<<>>)
    ELSE LET acc == TryFold(a, b, op, k - 1)
             x == a[k]
             y == b[k]
         IN  IF ~ acc.ok THEN acc
             ELSE IF op = "Div" /\ y = 0 THEN Err(ErrDivZero)
             ELSE Ok(Append(acc.val,
                     CASE op = "Add" -> x + y
                       [] op = "Sub" -> x - y
                       [] op = "Mul" -> x * y
                       [] op = "Div" -> Rat(x, y)))

OperateVectors(a, b, op) ==
    IF Len(a) # Len(b) THEN Err(ErrLen)
    ELSE TryFold(a, b, op, Len(a))

DotProduct(a, b) ==
    IF Len(a) # Len(b) THEN Err(ErrLen)
    ELSE Ok(Dot(a, b, Len(a)))

\* the norm sqrt(q), given by q
Norm(a) ==
    IF Len(a) = 0 THEN Err(ErrEmptyVec)
    ELSE Ok(Dot(a, a, Len(a)))

\* the unit vector: element i is v[i] / sqrt(rad)
UnitVect(a) ==
    IF Len(a) = 0 THEN Err(ErrEmptyVec)
    ELSE LET norm == Norm(a)
         IN  IF ~ norm.ok THEN norm
             ELSE IF norm.val = 0 THEN Err(ErrZeroNorm)
             ELSE Ok([v |-> a, rad |-> norm.val])

MutProjectionNoLengthCheck(a, b) ==
    LET b_unit == UnitVect(b)
    IN  IF ~ b_unit.ok THEN b_unit
        ELSE LET result == DotProduct(a, b_unit.val.v)
             IN  IF ~ result.ok THEN result
                 ELSE Ok([num |-> result.val, rad |-> b_unit.val.rad])

ScalarProjection(a, b) ==
    IF Len(a) # Len(b) THEN Err(ErrLen)
    ELSE LET b_unit == UnitVect(b)
         IN  IF ~ b_unit.ok THEN b_unit
             ELSE LET result == DotProduct(a, b_unit.val.v)
                  IN  IF ~ result.ok THEN result
                      ELSE Ok([num |-> result.val, rad |-> b_unit.val.rad])

CosineSimilarity(a, b) ==
    IF Len(a) # Len(b) THEN Err(ErrLen)
    ELSE LET dot == DotProduct(a, b)
             norm_a == Norm(a)
             norm_b == Norm(b)
         IN  IF ~ dot.ok THEN dot
             ELSE IF ~ norm_a.ok THEN norm_a
             ELSE IF ~ norm_b.ok THEN norm_b
             ELSE IF norm_a.val = 0 \/ norm_b.val = 0 THEN Err(ErrZeroSim)
             ELSE Ok([num |-> dot.val, rad |-> norm_a.val * norm_b.val])

VecVals == {-1, 0, 2}

NotCalled == [fn |-> "none", op |-> "none", res |-> Err("not called")]

VectorInit ==
    /\ va \in SeqsUpTo(VecVals, MaxLen)
    /\ vb \in SeqsUpTo(VecVals, MaxLen)
    /\ vres = NotCalled

\* Vector::add, sub, mul, div: operate_vectors(&self.0, &other.0, op)
CallOperate ==
    /\ UNCHANGED <<matVars, svdVars, va, vb>>
    /\ vres = NotCalled
    /\ \E op \in VectorOp :
          vres' = [fn |-> "operate_vectors", op |-> op, res |-> OperateVectors(va, vb, op)]

CallDotProduct ==
    /\ UNCHANGED <<matVars, svdVars, va, vb>>
    /\ vres = NotCalled
    /\ vres' = [fn |-> "dot_product", op |-> "none", res |-> DotProduct(va, vb)]

CallNorm ==
    /\ UNCHANGED <<matVars, svdVars, va, vb>>
    /\ vres = NotCalled
    /\ vres' = [fn |-> "norm", op |-> "none", res |-> Norm(va)]

CallUnitVect ==
    /\ UNCHANGED <<matVars, svdVars, va, vb>>
    /\ vres = NotCalled
    /\ vres' = [fn |-> "unit_vect", op |-> "none", res |-> UnitVect(va)]

CallScalarProjection ==
    /\ UNCHANGED <<matVars, svdVars, va, vb>>
    /\ vres = NotCalled
    /\ vres' = [fn |-> "scalar_projection", op |-> "none",
                res |-> ScalarProjection(va, vb)]

CallCosineSimilarity ==
    /\ UNCHANGED <<matVars, svdVars, va, vb>>
    /\ vres = NotCalled
    /\ vres' = [fn |-> "cosine_similarity", op |-> "none",
                res |-> CosineSimilarity(va, vb)]

----------------------------------------------------------------------------
(* Specifications *)

SvdIdle ==
    /\ A = NoMatrix /\ tol = <<1, 1>> /\ max_iter = 0 /\ pc = "idle" /\ n = 0
    /\ ata_work = [num |-> <<>>, den |-> 1]
    /\ eigvals = <<>> /\ eigvecs = <<>> /\ b_k = <<>>
    /\ lambda = <<0, 1>> /\ outer = 0 /\ iter = 0 /\ steps = 0
    /\ out = Err("not called")

VecIdle == va = <<>> /\ vb = <<>> /\ vres = NotCalled

\* runs of Matrix::svd
Init == SvdInit /\ MatInit /\ VecIdle

Next ==
    \/ SvdBegin \/ OuterEnter \/ OuterExit
    \/ PowerExhaust \/ PowerBreak \/ PowerConverge \/ PowerIterate
    \/ EigenStop \/ EigenAccept \/ Assemble

Spec == Init /\ [][Next]_vars

\* the matrix workbench
MatrixInit == MatInit /\ SvdIdle /\ VecIdle

MatrixNext ==
    NewOp \/ ZerosOp \/ TransposeOp \/ MulOp \/ SetColOp \/ Continue \/ DropOp

MatrixSpec == MatrixInit /\ [][MatrixNext]_vars

\* calls of the Vector operations
VecInit == VectorInit /\ MatInit /\ SvdIdle

VecNext ==
    \/ CallOperate \/ CallDotProduct \/ CallNorm \/ CallUnitVect
    \/ CallScalarProjection \/ CallCosineSimilarity

VectorSpec == VecInit /\ [][VecNext]_vars

----------------------------------------------------------------------------
(* Properties *)

IsShape(m, rows, cols) ==
    /\ m.rows = rows /\ m.cols = cols
    /\ Len(m.data) = rows
    /\ \A i \in 1..Len(m.data) : Len(m.data[i]) = cols

IsZeroMatrix(m) ==
    \A i \in 1..Len(m.data) : \A j \in 1..Len(m.data[i]) : m.data[i][j] = 0

Finished == pc = "done" /\ out.ok

\* C1, as claimed: whenever svd returns (U, S, Vt), with r = len(S), r <= n,
\* U is rows x r and Vt is r x n, for every r including r = 0.
C1_ShapesForEveryRank ==
    Finished =>
        LET r == Len(out.val.s)
        IN  /\ r <= A.cols
            /\ IsShape(out.val.u.m, A.rows, r)
            /\ IsShape(out.val.vt.m, r, A.cols)

\* C1, amended: whenever svd returns (U, S, Vt), r = len(S) <= n; for r >= 1
\* U is rows x r and Vt is r x n; for r = 0 U is rows x rows and Vt is 0 x 0.
C1_Shapes ==
    Finished =>
        LET r == Len(out.val.s)
        IN  /\ r <= A.cols
            /\ r >= 1 => /\ IsShape(out.val.u.m, A.rows, r)
                         /\ IsShape(out.val.vt.m, r, A.cols)
            /\ r = 0 => /\ IsShape(out.val.u.m, A.rows, A.rows)
                        /\ IsShape(out.val.vt.m, 0, 0)

\* a run that returned one singular value for a 2 x 2 input
C1_Witness ==
    /\ Finished /\ Len(out.val.s) = 1 /\ A.rows = 2 /\ A.cols = 2
    /\ IsShape(out.val.u.m, 2, 1) /\ IsShape(out.val.vt.m, 1, 2)

\* C2: for an all-zero input svd records no eigenpair, never deflates, and
\* returns no singular value, U = zeros(rows, rows) and Vt = zeros(0, 0).
C2_ZeroMatrix ==
    IsZeroMatrix(A) =>
        /\ eigvals = <<>> /\ eigvecs = <<>>
        /\ pc # "start" => ata_work = [num |-> Zeros(A.cols, A.cols).data, den |-> 1]
        /\ pc = "done" =>
              /\ out.ok
              /\ out.val.s = <<>>
              /\ out.val.u.m = Zeros(A.rows, A.rows)
              /\ IsZeroMatrix(out.val.u.m)
              /\ out.val.vt.m = Zeros(0, 0)

\* svd has returned for a zero matrix with 2 rows and max_iter > 0
C2_Witness ==
    /\ IsZeroMatrix(A) /\ A.rows = 2 /\ A.cols = 2 /\ max_iter = 2
    /\ pc = "done" /\ out.ok /\ out.val.s = <<>>

\* C3: svd never fails on a validly constructed matrix; it extracts at most n
\* eigenpairs with at most max_iter power iterations each, so it returns
\* within 3 + n * (max_iter + 3) steps, also when the iterations ran out.
C3_Total ==
    /\ pc = "done" => out.ok
    /\ Len(eigvals) <= A.cols /\ outer <= A.cols
    /\ outer = Len(eigvals)
    /\ iter <= max_iter
    /\ steps <= 3 + A.cols * (max_iter + 3)
    /\ pc \in {"start", "outer", "inner", "post", "assemble", "done"}

\* svd returned an eigenpair whose power iteration ran out of iterations
C3_Witness ==
    /\ Finished /\ max_iter >= 1 /\ iter = max_iter
    /\ Len(out.val.s) = A.cols
    /\ steps = 3 + A.cols * (max_iter + 3)

\* C4: the singular values svd returns are in non-increasing order.
C4_NonIncreasing ==
    Finished =>
        \A k \in 1..(Len(out.val.s) - 1) :
            ~ RatLess(out.val.s[k], out.val.s[k + 1])

\* C5: Matrix::new fails with the empty-matrix error iff the outer sequence
\* or the first row is empty; otherwise with the ragged-rows error iff some
\* row is not as long as the first; otherwise it returns the data unchanged
\* with rows = number of rows and cols = length of the first row.
C5_New ==
    last.op = "new" =>
        LET data == last.arg
            empty == Len(data) = 0 \/ Len(data[1]) = 0
            ragged == \E r \in 1..Len(data) : Len(data[r]) # Len(data[1])
        IN  /\ (ret = Err(ErrEmptyMatrix)) <=> empty
            /\ ~ empty => ((ret = Err(ErrRagged)) <=> ragged)
            /\ (~ empty /\ ~ ragged) =>
                  /\ ret.ok
                  /\ ret.val.rows = Len(data)
                  /\ ret.val.cols = Len(data[1])
                  /\ ret.val.data = data

\* Matrix::new has rejected ragged rows whose first row is not empty
C5_Witness ==
    /\ last.op = "new" /\ ret = Err(ErrRagged)
    /\ Len(last.arg) = 2 /\ Len(last.arg[2]) = 0

\* C6: every matrix the caller holds or is returned has rows = number of
\* stored rows and every stored row of length cols; set_col rejects a column
\* whose length is not rows, and never changes the number of rows or the
\* length of a row.
C6_ShapeConsistent ==
    /\ IsShape(mat, mat.rows, mat.cols)
    /\ (last.op \in {"new", "zeros", "transpose", "mul"} /\ ret.ok) =>
          IsShape(ret.val, ret.val.rows, ret.val.cols)
    /\ last.op = "set_col" =>
          /\ Len(last.arg) # last.pre.rows => (ret = Err(ErrColLen) /\ mat = last.pre)
          /\ mat.rows = last.pre.rows /\ mat.cols = last.pre.cols
          /\ Len(mat.data) = Len(last.pre.data)
          /\ \A r \in 1..Len(mat.data) : Len(mat.data[r]) = Len(last.pre.data[r])

\* set_col has replaced a column of a 2 x 2 matrix
C6_Witness ==
    /\ last.op = "set_col" /\ ret.ok /\ mat # last.pre
    /\ IsShape(mat, 2, 2)

\* the sum over k of a[i][k] * b[k][j], from the last term down
RECURSIVE SumFrom(_, _, _, _, _)
SumFrom(a, b, i, j, k) ==
    IF k > a.cols THEN 0
    ELSE a.data[i][k] * b.data[k][j] + SumFrom(a, b, i, j, k + 1)

\* C7: mul fails, with the shape-mismatch error, exactly when
\* A.cols # B.rows; otherwise it returns the A.rows x B.cols matrix of the
\* sums over k of A[i][k] * B[k][j]; a failed call leaves the receiver as is.
C7_Mul ==
    last.op = "mul" =>
        LET a == last.pre
            b == last.arg
        IN  /\ ~ ret.ok <=> a.cols # b.rows
            /\ ~ ret.ok => (ret = Err(ErrMulShape) /\ mat = a)
            /\ ret.ok =>
                  /\ IsShape(ret.val, a.rows, b.cols)
                  /\ \A i \in 1..a.rows : \A j \in 1..b.cols :
                        ret.val.data[i][j] = SumFrom(a, b, i, j, 1)

\* mul has returned a product with an entry that sums two non-zero terms
C7_Witness ==
    /\ last.op = "mul" /\ ret.ok /\ last.pre.cols = 2
    /\ \E i \in 1..ret.val.rows : \E j \in 1..ret.val.cols :
          /\ ret.val.data[i][j] = 2
          /\ last.pre.data[i][1] * last.arg.data[1][j] = 1

\* C8: transpose(A) is cols x rows with result[j][i] = A[i][j], and
\* transposing the result gives A back.
C8_Transpose ==
    last.op = "transpose" =>
        LET a == last.pre
            t == ret.val
        IN  /\ ret.ok
            /\ IsShape(t, a.cols, a.rows)
            /\ \A i \in 1..a.rows : \A j \in 1..a.cols : t.data[j][i] = a.data[i][j]
            /\ Transpose(t) = a

\* a 1 x 3 matrix with distinct entries has been transposed
C8_Witness ==
    /\ last.op = "transpose" /\ ret.ok
    /\ last.pre.rows = 1 /\ last.pre.cols = 3
    /\ last.pre.data[1][1] # last.pre.data[1][2]
    /\ ret.val.rows = 3

\* C9: on vectors of different lengths add, sub, mul, div, dot_product,
\* scalar_projection and cosine_similarity all return the length-mismatch
\* error, whatever other failure the elements would cause.
C9_LengthMismatch ==
    (/\ Len(va) # Len(vb)
     /\ vres.fn \in {"operate_vectors", "dot_product", "scalar_projection",
                     "cosine_similarity"}) =>
        vres.res = Err(ErrLen)

\* a projection onto a zero vector of another length has been refused
C9_Witness ==
    /\ Len(va) = 2 /\ Len(vb) = 1 /\ vb[1] = 0
    /\ vres.fn = "scalar_projection" /\ vres.res = Err(ErrLen)

\* C10: for vectors of equal length, div fails with the division-by-zero
\* error iff some element of b is zero, wherever it is, and then returns no
\* vector; otherwise the result is as long as a and result[i] * b[i] = a[i].
C10_Division ==
    (vres.fn = "operate_vectors" /\ vres.op = "Div" /\ Len(va) = Len(vb)) =>
        LET zero == \E i \in 1..Len(vb) : vb[i] = 0
        IN  /\ (vres.res = Err(ErrDivZero)) <=> zero
            /\ ~ vres.res.ok <=> zero
            /\ ~ zero =>
                  /\ Len(vres.res.val) = Len(va)
                  /\ \A i \in 1..Len(va) :
                        /\ vres.res.val[i][2] > 0
                        /\ vres.res.val[i][1] * vb[i] = va[i] * vres.res.val[i][2]

\* div has failed on a zero that is the last of three divisors
C10_Witness ==
    /\ vres.fn = "operate_vectors" /\ vres.op = "Div"
    /\ Len(va) = 3 /\ Len(vb) = 3 /\ vb[1] # 0 /\ vb[2] # 0 /\ vb[3] = 0
    /\ vres.res = Err(ErrDivZero)

=============================================================================
